---- MODULE Spec2Model ----
(***************************************************************************)
(* Academic Record Service (acad-service/main.py): the relational store    *)
(* (mahasiswa, mata_kuliah, krs, bobot_nilai), the request handlers that   *)
(* read and write it through a per-request session (get_db), and the IPS   *)
(* computation with the float arithmetic Python performs.                  *)
(***************************************************************************)
EXTENDS Integers, Sequences, FiniteSets, TLC

(***************************************************************************)
(* Unbounded naturals: TLC's integers are 32 bits wide, a double's         *)
(* mantissa is 53.  A natural is a little-endian sequence of limbs.        *)
(***************************************************************************)
Base == 2 ^ 15

RECURSIVE BNTrim(_)
BNTrim(a) ==
    IF Len(a) = 0 THEN a
    ELSE IF a[Len(a)] = 0 THEN BNTrim(SubSeq(a, 1, Len(a) - 1)) ELSE a

BNFromInt(n) ==
    BNTrim(<<n % Base, (n \div Base) % Base, n \div (Base * Base)>>)

RECURSIVE BNToIntFrom(_, _)
BNToIntFrom(a, i) ==
    IF i > Len(a) THEN 0 ELSE a[i] + Base * BNToIntFrom(a, i + 1)

BNToInt(a) == BNToIntFrom(BNTrim(a), 1)

BNLimb(a, i) == IF i <= Len(a) THEN a[i] ELSE 0

RECURSIVE BNAddFrom(_, _, _, _)
BNAddFrom(a, b, i, carry) ==
    IF i > Len(a) /\ i > Len(b)
    THEN IF carry = 0 THEN <<>> ELSE <<carry>>
    ELSE LET s == BNLimb(a, i) + BNLimb(b, i) + carry
         IN  <<s % Base>> \o BNAddFrom(a, b, i + 1, s \div Base)

BNAdd(a, b) == BNTrim(BNAddFrom(a, b, 1, 0))

RECURSIVE BNMulFrom(_, _, _, _)
BNMulFrom(a, k, i, carry) ==
    IF i > Len(a)
    THEN IF carry = 0 THEN <<>> ELSE <<carry>>
    ELSE LET p == a[i] * k + carry
         IN  <<p % Base>> \o BNMulFrom(a, k, i + 1, p \div Base)

\* a * k for 0 <= k < Base
BNMulSmall(a, k) == BNTrim(BNMulFrom(a, k, 1, 0))

RECURSIVE BNDivFrom(_, _, _, _)
BNDivFrom(a, k, i, rem) ==
    IF i = 0 THEN [q |-> <<>>, r |-> rem]
    ELSE LET cur  == rem * Base + a[i]
             rest == BNDivFrom(a, k, i - 1, cur % k)
         IN  [q |-> Append(rest.q, cur \div k), r |-> rest.r]

\* quotient and remainder of a by k, 0 < k <= Base
BNDivSmall(a, k) ==
    LET d == BNDivFrom(a, k, Len(a), 0)
    IN  [q |-> BNTrim(d.q), r |-> d.r]

RECURSIVE IntBitLen(_)
IntBitLen(n) == IF n = 0 THEN 0 ELSE 1 + IntBitLen(n \div 2)

\* bits per limb
LimbBits == IntBitLen(Base) - 1

BNZeros(n) == [i \in 1..n |-> 0]

BNShl(a, s) ==
    IF Len(BNTrim(a)) = 0 THEN <<>>
    ELSE BNZeros(s \div LimbBits) \o BNMulSmall(a, 2 ^ (s % LimbBits))

\* floor(a / 2^s), and whether any dropped bit was set
BNShrSticky(a, s) ==
    LET drop == s \div LimbBits
        kept == IF drop >= Len(a) THEN <<>> ELSE SubSeq(a, drop + 1, Len(a))
        lost == \E i \in 1..Len(a) : i <= drop /\ a[i] # 0
        d    == BNDivSmall(kept, 2 ^ (s % LimbBits))
    IN  [q |-> d.q, sticky |-> lost \/ d.r # 0]

BNBitLen(a) ==
    LET t == BNTrim(a)
    IN  IF Len(t) = 0 THEN 0 ELSE LimbBits * (Len(t) - 1) + IntBitLen(t[Len(t)])

BNIsZero(a) == Len(BNTrim(a)) = 0

BNIsOdd(a) == Len(a) > 0 /\ a[1] % 2 = 1

RECURSIVE BNCmpFrom(_, _, _)
BNCmpFrom(a, b, i) ==
    IF i = 0 THEN 0
    ELSE IF BNLimb(a, i) < BNLimb(b, i) THEN -1
    ELSE IF BNLimb(a, i) > BNLimb(b, i) THEN 1
    ELSE BNCmpFrom(a, b, i - 1)

\* -1, 0, 1 as a < b, a = b, a > b
BNCmp(a, b) == BNCmpFrom(a, b, IF Len(a) > Len(b) THEN Len(a) ELSE Len(b))

\* floor(a / 2^s) rounded to nearest, ties to even; sticky: a value below
\* one unit of a was already dropped from a
BNRoundShr(a, s, sticky) ==
    IF s = 0 THEN a
    ELSE LET sh == BNShrSticky(a, s - 1)
             q  == BNDivSmall(sh.q, 2).q
             up == BNIsOdd(sh.q) /\ (sh.sticky \/ sticky \/ BNIsOdd(q))
         IN  IF up THEN BNAdd(q, <<1>>) ELSE q

(***************************************************************************)
(* Python float (IEEE 754 binary64), non-negative and in the normal range: *)
(* the value m * 2^e with m = 0 or 2^52 <= m < 2^53.                       *)
(***************************************************************************)
Mantissa == 53

FZero == [m |-> <<>>, e |-> 0]

FIsZero(x) == BNIsZero(x.m)

\* the double nearest to (n + a dropped fraction if sticky) * 2^e
FRound(n, e, sticky) ==
    LET L == BNBitLen(n)
    IN  IF L = 0 THEN FZero
        ELSE IF L <= Mantissa
        THEN [m |-> BNShl(n, Mantissa - L), e |-> e - (Mantissa - L)]
        ELSE LET r == BNRoundShr(n, L - Mantissa, sticky)
             IN  IF BNBitLen(r) > Mantissa
                 THEN [m |-> BNDivSmall(r, 2).q, e |-> e + (L - Mantissa) + 1]
                 ELSE [m |-> r, e |-> e + (L - Mantissa)]

\* float(k) for an int 0 <= k < 2^31
FFromInt(k) == FRound(BNFromInt(k), 0, FALSE)

\* x * k: the int operand converts exactly, the product rounds once
FMulInt(x, k) == FRound(BNMulSmall(x.m, k), x.e, FALSE)

FAdd(x, y) ==
    IF FIsZero(x) THEN y
    ELSE IF FIsZero(y) THEN x
    ELSE LET hi == IF x.e >= y.e THEN x ELSE y
             lo == IF x.e >= y.e THEN y ELSE x
             d  == hi.e - lo.e
         IN  \* a smaller addend below a quarter ulp of the larger is absorbed
             IF d > Mantissa + 7 THEN hi
             ELSE FRound(BNAdd(BNShl(hi.m, d), lo.m), lo.e, FALSE)

\* x / k for an int 0 < k < Base; the quotient keeps two bits beyond the
\* mantissa and whether the remainder was non-zero, then rounds once
FDivInt(x, k) ==
    IF FIsZero(x) THEN FZero
    ELSE LET d == BNDivSmall(BNShl(x.m, LimbBits + 2), k)
         IN  FRound(d.q, x.e - (LimbBits + 2), d.r # 0)

\* round(x, 2) as a count of hundredths: the exact binary value rounded to
\* two decimals, ties to even
FRound2(x) ==
    LET n == BNMulSmall(x.m, 100)
    IN  IF x.e >= 0 THEN BNToInt(BNShl(n, x.e))
        ELSE BNToInt(BNRoundShr(n, 0 - x.e, FALSE))

\* the double nearest to the decimal p / q
FDecimal(p, q) == FDivInt(FFromInt(p), q)

(***************************************************************************)
(* The store: one set of rows per table.                                   *)
(***************************************************************************)
VARIABLES
    mahasiswa,      \* rows of table mahasiswa
    mata_kuliah,    \* rows of table mata_kuliah
    krs,            \* rows of table krs
    krs_seq,        \* last value drawn from the id_krs sequence
    pc,             \* per request: "idle", "open", "returned", "raised"
    session,        \* per request: the session get_db gave it, 0 if none
    open_sessions,  \* sessions created and not yet closed
    sessions_made,  \* number of sessions SessionLocal() has created
    response        \* the response most recently sent

vars ==
    <<mahasiswa, mata_kuliah, krs, krs_seq, pc, session, open_sessions,
      sessions_made, response>>

store == <<mahasiswa, mata_kuliah, krs, krs_seq>>

\* concurrent requests in flight
NumReq == 2

\* sessions created in one run
MaxSessions == 3

\* values the id_krs sequence may reach
MaxKrs == 4

Req == 1..NumReq

\* SQL NULL in krs.nilai: distinct from every String(2) value
NULL == "<NULL>"

\* table bobot_nilai, populated out of band and only read
bobot_nilai ==
    { [nilai |-> "A",  bobot |-> FDecimal(40, 10)],
      [nilai |-> "B+", bobot |-> FDecimal(33, 10)],
      [nilai |-> "C-", bobot |-> FDecimal(17, 10)] }

\* the catalogue the store holds before the service starts
SeedMahasiswa ==
    { [nim |-> "S1", nama |-> "Ani", jurusan |-> "TI", angkatan |-> 2023] }

SeedMataKuliah ==
    { [kode_mk |-> "MK1", nama_mk |-> "Kalkulus", sks |-> 1],
      [kode_mk |-> "MK2", nama_mk |-> "Fisika", sks |-> 2],
      [kode_mk |-> "MK3", nama_mk |-> "Etika", sks |-> 1] }

\* enrollments recorded earlier, one of them before its grade was entered
SeedKRS ==
    { [id_krs |-> 1, nim |-> "S1", kode_mk |-> "MK2", nilai |-> NULL,
       semester |-> 1],
      [id_krs |-> 2, nim |-> "S1", kode_mk |-> "MK1", nilai |-> "A",
       semester |-> 1] }

\* request bodies and parameters the clients send
MahasiswaInputs ==
    { [nim |-> "S1", nama |-> "Budi", jurusan |-> "SI", angkatan |-> 2024],
      [nim |-> "S2", nama |-> "Citra", jurusan |-> "TI", angkatan |-> 2024],
      [nim |-> "S2", nama |-> "Dewi", jurusan |-> "SI", angkatan |-> 2023] }

MataKuliahInputs ==
    { [kode_mk |-> "MK1", nama_mk |-> "Aljabar", sks |-> 3],
      [kode_mk |-> "MK4", nama_mk |-> "Seminar", sks |-> 0] }

KRSInputs ==
    { [nim |-> "S1", kode_mk |-> "MK1", nilai |-> "A",  semester |-> 1],
      [nim |-> "S1", kode_mk |-> "MK2", nilai |-> "B+", semester |-> 1],
      [nim |-> "S1", kode_mk |-> "MK3", nilai |-> "C-", semester |-> 1],
      [nim |-> "S1", kode_mk |-> "MK3", nilai |-> "A",  semester |-> 0],
      [nim |-> "S1", kode_mk |-> "MK4", nilai |-> "A",  semester |-> 2],
      [nim |-> "S2", kode_mk |-> "MK1", nilai |-> "A",  semester |-> 1],
      [nim |-> "S1", kode_mk |-> "MK1", nilai |-> "Z",  semester |-> 1] }

NimInputs == {"S1", "S2"}

\* Optional[int]: the empty set is None, {n} is the int n
SemesterInputs == {{}, {0}, {1}}

IPSInputs ==
    { [nim |-> "S1", semester |-> 1],
      [nim |-> "S1", semester |-> 2],
      [nim |-> "S2", semester |-> 1] }

\* collation of kode_mk
KodeRank == [k \in {"MK1", "MK2", "MK3", "MK4"} |->
               CASE k = "MK1" -> 1 [] k = "MK2" -> 2 [] k = "MK3" -> 3 [] k = "MK4" -> 4]

\* all orders in which a query may return the rows of S
Orders(S) ==
    { f \in [1..Cardinality(S) -> S] :
        \A i, j \in 1..Cardinality(S) : i # j => f[i] # f[j] }

Init ==
    /\ mahasiswa = SeedMahasiswa
    /\ mata_kuliah = SeedMataKuliah
    /\ \/ krs = {} /\ krs_seq = 0
       \/ krs = SeedKRS /\ krs_seq = Cardinality(SeedKRS)
    /\ pc = [r \in Req |-> "idle"]
    /\ session = [r \in Req |-> 0]
    /\ open_sessions = {}
    /\ sessions_made = 0
    /\ response = [op |-> "none", status |-> 0]

(***************************************************************************)
(* get_db: a new session per request, closed when the handler has exited.  *)
(***************************************************************************)
get_db_enter(r) ==
    /\ pc[r] = "idle"
    /\ sessions_made < MaxSessions
    /\ sessions_made' = sessions_made + 1
    /\ session' = [session EXCEPT ![r] = sessions_made + 1]
    /\ open_sessions' = open_sessions \cup {sessions_made + 1}
    /\ pc' = [pc EXCEPT ![r] = "open"]
    /\ UNCHANGED <<store, response>>

\* get_db without try/finally: close() is skipped when the handler raised
get_db_exit_NoFinally(r) ==
    /\ pc[r] \in {"returned", "raised"}
    /\ open_sessions' =
         IF pc[r] = "raised" THEN open_sessions ELSE open_sessions \ {session[r]}
    /\ session' = [session EXCEPT ![r] = 0]
    /\ pc' = [pc EXCEPT ![r] = "idle"]
    /\ UNCHANGED <<store, sessions_made, response>>

get_db_exit(r) ==
    /\ pc[r] \in {"returned", "raised"}
    /\ open_sessions' = open_sessions \ {session[r]}
    /\ session' = [session EXCEPT ![r] = 0]
    /\ pc' = [pc EXCEPT ![r] = "idle"]
    /\ UNCHANGED <<store, sessions_made, response>>

\* the handler of request r ends by returning (200) or raising HTTPException
Reply(r, op, arg, resp) ==
    /\ response' = [op |-> op, arg |-> arg] @@ resp
    /\ pc' = [pc EXCEPT ![r] = IF resp.status = 200 THEN "returned" ELSE "raised"]
    /\ UNCHANGED <<session, open_sessions, sessions_made>>

Ok(data) == [status |-> 200, success |-> TRUE, data |-> data]

Err(code, detail) == [status |-> code, detail |-> detail]

(***************************************************************************)
(* Students and courses                                                    *)
(***************************************************************************)
MahasiswaData(m) ==
    [nim |-> m.nim, nama |-> m.nama, jurusan |-> m.jurusan, angkatan |-> m.angkatan]

\* get_mahasiswa without `except HTTPException: raise`: the 404 becomes a 500
get_mahasiswa_NotFoundAs500(r, nim) ==
    /\ pc[r] = "open"
    /\ LET found == {m \in mahasiswa : m.nim = nim}
       IN  IF found = {}
           THEN Reply(r, "get_mahasiswa", nim, Err(500, "404: Mahasiswa not found"))
           ELSE \E mhs \in found :
                  Reply(r, "get_mahasiswa", nim, Ok(MahasiswaData(mhs)))
    /\ UNCHANGED store

get_mahasiswa(r, nim) ==
    /\ pc[r] = "open"
    /\ LET found == {m \in mahasiswa : m.nim = nim}
       IN  IF found = {}
           THEN Reply(r, "get_mahasiswa", nim, Err(404, "Mahasiswa not found"))
           ELSE \E mhs \in found :
                  Reply(r, "get_mahasiswa", nim, Ok(MahasiswaData(mhs)))
    /\ UNCHANGED store

\* primary key of mahasiswa
MahasiswaInsertOk(mhs) == \A m \in mahasiswa : m.nim # mhs.nim

\* create_mahasiswa with db.merge in place of db.add: an existing row is overwritten
create_mahasiswa_Upsert(r, mhs) ==
    /\ pc[r] = "open"
    /\ mahasiswa' = {m \in mahasiswa : m.nim # mhs.nim} \cup {mhs}
    /\ Reply(r, "create_mahasiswa", mhs, Ok(MahasiswaData(mhs)))
    /\ UNCHANGED <<mata_kuliah, krs, krs_seq>>

create_mahasiswa(r, mhs) ==
    /\ pc[r] = "open"
    /\ IF MahasiswaInsertOk(mhs)
       THEN /\ mahasiswa' = mahasiswa \cup {mhs}
            /\ Reply(r, "create_mahasiswa", mhs, Ok(MahasiswaData(mhs)))
       ELSE /\ mahasiswa' = mahasiswa
            /\ Reply(r, "create_mahasiswa", mhs, Err(500, "IntegrityError"))
    /\ UNCHANGED <<mata_kuliah, krs, krs_seq>>

\* primary key of mata_kuliah
MataKuliahInsertOk(mk) == \A c \in mata_kuliah : c.kode_mk # mk.kode_mk

create_matakuliah(r, mk) ==
    /\ pc[r] = "open"
    /\ IF MataKuliahInsertOk(mk)
       THEN /\ mata_kuliah' = mata_kuliah \cup {mk}
            /\ Reply(r, "create_matakuliah", mk,
                     Ok([kode_mk |-> mk.kode_mk, nama_mk |-> mk.nama_mk, sks |-> mk.sks]))
       ELSE /\ mata_kuliah' = mata_kuliah
            /\ Reply(r, "create_matakuliah", mk, Err(500, "IntegrityError"))
    /\ UNCHANGED <<mahasiswa, krs, krs_seq>>

(***************************************************************************)
(* Enrollments                                                             *)
(***************************************************************************)
\* `if semester:` -- None and 0 are both falsy
Truthy(semester) == \E n \in semester : n # 0

\* KRS join Mahasiswa join MataKuliah, filtered
KrsJoin(nim, semester) ==
    { [id_krs |-> k.id_krs, nim |-> k.nim, nama_mahasiswa |-> m.nama,
       kode_mk |-> c.kode_mk, nama_mk |-> c.nama_mk, sks |-> c.sks,
       nilai |-> k.nilai, semester |-> k.semester] :
      <<k, m, c>> \in
        { t \in krs \X mahasiswa \X mata_kuliah :
            /\ t[1].nim = t[2].nim
            /\ t[1].kode_mk = t[3].kode_mk
            /\ t[1].nim = nim
            /\ (Truthy(semester) => t[1].semester \in semester) } }

\* order_by(KRS.semester) alone
OrderByKey_SemesterOnly(a, b) == a.semester <= b.semester

\* order_by(KRS.semester, MataKuliah.kode_mk)
OrderByKey(a, b) ==
    \/ a.semester < b.semester
    \/ a.semester = b.semester /\ KodeRank[a.kode_mk] <= KodeRank[b.kode_mk]

OrderedResults(rows) ==
    { f \in Orders(rows) :
        \A i, j \in 1..Len(f) : i < j => OrderByKey(f[i], f[j]) }

get_krs(r, nim, semester) ==
    /\ pc[r] = "open"
    /\ \E results \in OrderedResults(KrsJoin(nim, semester)) :
         Reply(r, "get_krs", [nim |-> nim, semester |-> semester], Ok(results))
    /\ UNCHANGED store

\* krs.nilai without its ForeignKey
KrsInsertOk_NoGradeFK(k) ==
    /\ \E m \in mahasiswa : m.nim = k.nim
    /\ \E c \in mata_kuliah : c.kode_mk = k.kode_mk

\* foreign keys of krs; nilai is nullable
KrsInsertOk(k) ==
    /\ \E m \in mahasiswa : m.nim = k.nim
    /\ \E c \in mata_kuliah : c.kode_mk = k.kode_mk
    /\ k.nilai = NULL \/ \E b \in bobot_nilai : b.nilai = k.nilai

create_krs(r, k) ==
    /\ pc[r] = "open"
    /\ krs_seq < MaxKrs
    /\ krs_seq' = krs_seq + 1
    /\ IF KrsInsertOk(k)
       THEN LET new_krs == [id_krs |-> krs_seq + 1] @@ k
            IN  /\ krs' = krs \cup {new_krs}
                /\ Reply(r, "create_krs", k, Ok(new_krs))
       ELSE /\ krs' = krs
            /\ Reply(r, "create_krs", k, Err(500, "IntegrityError"))
    /\ UNCHANGED <<mahasiswa, mata_kuliah>>

(***************************************************************************)
(* IPS                                                                     *)
(***************************************************************************)
\* the join to BobotNilai made an outer join, a missing weight read as 0
IpsJoin_LeftJoin(nim, semester) ==
    { [id_krs |-> t[1].id_krs, sks |-> t[2].sks,
       bobot |-> IF \E b \in bobot_nilai : b.nilai = t[1].nilai
                 THEN (CHOOSE b \in bobot_nilai : b.nilai = t[1].nilai).bobot
                 ELSE FZero,
       nama_mk |-> t[2].nama_mk, nilai |-> t[1].nilai] :
      t \in { t \in krs \X mata_kuliah :
                /\ t[1].kode_mk = t[2].kode_mk
                /\ t[1].nim = nim
                /\ t[1].semester = semester } }

\* KRS join MataKuliah join BobotNilai for one student and semester
IpsJoin(nim, semester) ==
    { [id_krs |-> t[1].id_krs, sks |-> t[2].sks, bobot |-> t[3].bobot,
       nama_mk |-> t[2].nama_mk, nilai |-> t[1].nilai] :
      t \in { t \in krs \X mata_kuliah \X bobot_nilai :
                /\ t[1].kode_mk = t[2].kode_mk
                /\ t[1].nilai # NULL
                /\ t[1].nilai = t[3].nilai
                /\ t[1].nim = nim
                /\ t[1].semester = semester } }

\* the loop over results: totals and detail rows after rows i..Len(results)
RECURSIVE IpsLoop(_, _, _)
IpsLoop(results, i, acc) ==
    IF i > Len(results) THEN acc
    ELSE LET row == results[i]
             bobot_x_sks == FMulInt(row.bobot, row.sks)
         IN  IpsLoop(results, i + 1,
                 [total_bobot |-> FAdd(acc.total_bobot, bobot_x_sks),
                  total_sks   |-> acc.total_sks + row.sks,
                  details     |-> Append(acc.details,
                      [mata_kuliah |-> row.nama_mk, sks |-> row.sks,
                       nilai |-> row.nilai, bobot |-> row.bobot,
                       bobot_x_sks |-> FRound2(bobot_x_sks)])])

\* the payload computed from the rows in the order the query returned them;
\* ips, total_bobot and bobot_x_sks are counts of hundredths
IpsData(request, results) ==
    LET acc == IpsLoop(results, 1,
                   [total_bobot |-> FZero, total_sks |-> 0, details |-> <<>>])
        ips == IF acc.total_sks > 0
               THEN FRound2(FDivInt(acc.total_bobot, acc.total_sks))
               ELSE 0
        mhs == {m \in mahasiswa : m.nim = request.nim}
    IN  [nim |-> request.nim,
         nama |-> IF mhs = {} THEN "Unknown" ELSE (CHOOSE m \in mhs : TRUE).nama,
         semester |-> request.semester,
         ips |-> ips,
         total_sks |-> acc.total_sks,
         total_bobot |-> FRound2(acc.total_bobot),
         details |-> acc.details]

\* calculate_ips without `if not results`: an empty result is summed like any other
calculate_ips_NoEmptyCheck(r, request) ==
    /\ pc[r] = "open"
    /\ \E results \in Orders(IpsJoin(request.nim, request.semester)) :
         Reply(r, "calculate_ips", request, Ok(IpsData(request, results)))
    /\ UNCHANGED store

\* calculate_ips with `ips = total_bobot / total_sks` unguarded: a zero total
\* raises ZeroDivisionError, which the handler turns into a 500
calculate_ips_Unguarded(r, request) ==
    /\ pc[r] = "open"
    /\ LET rows == IpsJoin(request.nim, request.semester)
       IN  IF rows = {}
           THEN Reply(r, "calculate_ips", request,
                      Err(404, "No KRS data found for this semester"))
           ELSE \E results \in Orders(rows) :
                  IF IpsLoop(results, 1, [total_bobot |-> FZero, total_sks |-> 0,
                                          details |-> <<>>]).total_sks = 0
                  THEN Reply(r, "calculate_ips", request,
                             Err(500, "float division by zero"))
                  ELSE Reply(r, "calculate_ips", request,
                             Ok(IpsData(request, results)))
    /\ UNCHANGED store

calculate_ips(r, request) ==
    /\ pc[r] = "open"
    /\ LET rows == IpsJoin(request.nim, request.semester)
       IN  IF rows = {}
           THEN Reply(r, "calculate_ips", request,
                      Err(404, "No KRS data found for this semester"))
           ELSE \E results \in Orders(rows) :
                  Reply(r, "calculate_ips", request, Ok(IpsData(request, results)))
    /\ UNCHANGED store

\* the handler FastAPI dispatches request r to
Handler(r) ==
    \/ \E nim \in NimInputs : get_mahasiswa(r, nim)
    \/ \E mhs \in MahasiswaInputs : create_mahasiswa(r, mhs)
    \/ \E mk \in MataKuliahInputs : create_matakuliah(r, mk)
    \/ \E nim \in NimInputs, semester \in SemesterInputs : get_krs(r, nim, semester)
    \/ \E k \in KRSInputs : create_krs(r, k)
    \/ \E request \in IPSInputs : calculate_ips(r, request)

Next ==
    \E r \in Req :
        \/ get_db_enter(r)
        \/ Handler(r)
        \/ get_db_exit(r)

Spec == Init /\ [][Next]_vars

\* a dispatched handler runs to its return or raise, and the generator
\* get_db is then resumed into its finally clause
FairSpec ==
    /\ Spec
    /\ \A r \in Req : WF_vars(Handler(r)) /\ WF_vars(get_db_exit(r))

(***************************************************************************)
(* Properties                                                              *)
(***************************************************************************)
IsReply(op) == response.op = op

IsOk(op) == response.op = op /\ response.status = 200

RECURSIVE SumSks(_)
SumSks(rows) ==
    IF rows = {} THEN 0
    ELSE LET row == CHOOSE x \in rows : TRUE
         IN  row.sks + SumSks(rows \ {row})

\* the least exponent among the weights of rows
MinExp(rows) ==
    CHOOSE e \in {row.bobot.e : row \in rows} :
        \A row \in rows : e <= row.bobot.e

\* the exact sum of weight * credit_units over rows, in units of 2^e
RECURSIVE ExactWeighted(_, _)
ExactWeighted(rows, e) ==
    IF rows = {} THEN <<>>
    ELSE LET row == CHOOSE x \in rows : TRUE
         IN  BNAdd(BNShl(BNMulSmall(row.bobot.m, row.sks), row.bobot.e - e),
                   ExactWeighted(rows \ {row}, e))

\* h hundredths is a nearest two-decimal value to
\* (sum of weight * credit_units over rows) / credits, taken exactly:
\* (2h - 1) * credits <= 200 * sum <= (2h + 1) * credits
NearestHundredth(h, rows, credits) ==
    LET e    == MinExp(rows)
        sum  == BNMulSmall(ExactWeighted(rows, e), 200)
        unit == BNShl(BNFromInt(credits), 0 - e)
    IN  /\ h >= 0
        /\ h = 0 \/ BNCmp(BNMulSmall(unit, 2 * h - 1), sum) <= 0
        /\ BNCmp(sum, BNMulSmall(unit, 2 * h + 1)) <= 0

\* C1: whenever calculate_ips succeeds for a (student, term) whose resolvable
\* enrollments have credit_units summing to more than 0, the ips it returns is
\* the exact quotient (sum of weight * credit_units) / (sum of credit_units)
\* rounded to 2 decimals, and every order of the joined rows gives that ips.
C1_IpsExactAnyOrder ==
    IsOk("calculate_ips") =>
        LET rows == IpsJoin(response.arg.nim, response.arg.semester)
        IN  SumSks(rows) > 0 =>
              /\ NearestHundredth(response.data.ips, rows, SumSks(rows))
              /\ \A results \in Orders(rows) :
                    IpsData(response.arg, results).ips = response.data.ips

\* C8: whenever list_enrollments is called with a term supplied (0 included),
\* every returned enrollment has exactly that term.
C8_TermFilterExact ==
    (IsOk("get_krs") /\ response.arg.semester # {}) =>
        \A i \in 1..Len(response.data) :
            response.data[i].semester \in response.arg.semester

\* the krs rows of one student and term whose grade resolves to a weight
Graded(nim, semester) ==
    { k \in krs :
        /\ k.nim = nim
        /\ k.semester = semester
        /\ k.nilai # NULL
        /\ \E b \in bobot_nilai : b.nilai = k.nilai }

\* C2: calculate_ips for a (student, term) with no enrollment that joins to
\* both a course and a grade weight answers 404 with no data payload: never
\* 500, never a success with ips = 0.
C2_IpsNotFound ==
    (IsReply("calculate_ips")
        /\ ~ \E k \in Graded(response.arg.nim, response.arg.semester) :
               \E c \in mata_kuliah : c.kode_mk = k.kode_mk)
    => (response.status = 404 /\ "data" \notin DOMAIN response)

\* C2 witness: a 404 from calculate_ips for a student who has enrollments,
\* none of them in the requested term.
C2_Witness ==
    /\ IsReply("calculate_ips")
    /\ response.status = 404
    /\ \E k \in krs : k.nim = response.arg.nim

\* a handler step: some request leaves "open" with a reply of op
HandlerStep(op) ==
    /\ \E r \in Req : pc[r] = "open" /\ pc'[r] # "open"
    /\ response'.op = op

\* C3: the store never holds two students with one id, and a create_student
\* whose id already exists answers with an error and leaves the table of
\* students, so the existing record's name, major and year, as it was.
C3_NoDuplicateStudent ==
    /\ [](\A m1, m2 \in mahasiswa : m1.nim = m2.nim => m1 = m2)
    /\ [][(HandlerStep("create_mahasiswa")
             /\ \E m \in mahasiswa : m.nim = response'.arg.nim)
          => (response'.status >= 400 /\ mahasiswa' = mahasiswa)]_vars

\* C3 witness: a create_student for an existing id with other fields was
\* refused while another request was in flight.
C3_Witness ==
    /\ IsReply("create_mahasiswa")
    /\ response.status = 500
    /\ \E m \in mahasiswa : m.nim = response.arg.nim /\ m.nama # response.arg.nama
    /\ \A r \in Req : pc[r] # "idle"

\* C4: list_enrollments returns the student's enrollments, each once, sorted
\* by term ascending and within a term by course code ascending.
C4_ListSorted ==
    IsOk("get_krs") =>
        LET d == response.data
        IN  /\ \A i, j \in 1..Len(d) :
                 i < j =>
                   \/ d[i].semester < d[j].semester
                   \/ /\ d[i].semester = d[j].semester
                      /\ KodeRank[d[i].kode_mk] <= KodeRank[d[j].kode_mk]
            /\ \A i, j \in 1..Len(d) : i # j => d[i].id_krs # d[j].id_krs
            /\ response.arg.semester = {} =>
                 {d[i].id_krs : i \in 1..Len(d)}
                   = {k.id_krs : k \in {x \in krs : x.nim = response.arg.nim}}

\* C4 witness: three enrollments listed in the reverse of their insertion
\* order, the first of an earlier term, the other two of one term.
C4_Witness ==
    /\ IsOk("get_krs")
    /\ Len(response.data) = 3
    /\ response.data[1].id_krs > response.data[2].id_krs
    /\ response.data[2].id_krs > response.data[3].id_krs
    /\ response.data[1].semester < response.data[2].semester
    /\ response.data[2].semester = response.data[3].semester

\* credit_units of the course of a krs row
SksOf(k) == (CHOOSE c \in mata_kuliah : c.kode_mk = k.kode_mk).sks

RECURSIVE SumSksOf(_)
SumSksOf(ks) ==
    IF ks = {} THEN 0
    ELSE LET k == CHOOSE x \in ks : TRUE
         IN  SksOf(k) + SumSksOf(ks \ {k})

\* C5: an enrollment with a null or unmatched grade adds nothing to
\* calculate_ips (detail rows, total_credits, total_weighted) and does not make
\* it fail with 500, and list_enrollments still returns it.
C5_UngradedExcluded ==
    /\ IsReply("calculate_ips") =>
         LET graded == Graded(response.arg.nim, response.arg.semester)
         IN  /\ response.status # 500
             /\ graded # {} =>
                  /\ response.status = 200
                  /\ Len(response.data.details) = Cardinality(graded)
                  /\ \A i \in 1..Len(response.data.details) :
                        \E k \in graded : k.nilai = response.data.details[i].nilai
                  /\ response.data.total_sks = SumSksOf(graded)
                  /\ NearestHundredth(response.data.total_bobot,
                        IpsJoin(response.arg.nim, response.arg.semester), 1)
                  /\ Cardinality(IpsJoin(response.arg.nim, response.arg.semester))
                        = Cardinality(graded)
    /\ IsOk("get_krs") =>
         \A k \in krs :
            (/\ k.nim = response.arg.nim
             /\ k.nilai = NULL
             /\ response.arg.semester = {} \/ k.semester \in response.arg.semester)
            => \E i \in 1..Len(response.data) : response.data[i].id_krs = k.id_krs

\* C5 witness: calculate_ips succeeded for a student and term that also
\* hold an enrollment without a grade.
C5_Witness ==
    /\ IsOk("calculate_ips")
    /\ \E k \in krs :
          /\ k.nim = response.arg.nim
          /\ k.semester = response.arg.semester
          /\ k.nilai = NULL

\* C6: every stored enrollment references a stored student, a stored course
\* and, if it has a grade, a stored grade weight; a create_enrollment that
\* references a missing one answers 500 and stores no row.
C6_ReferentialIntegrity ==
    /\ \A k \in krs :
          /\ \E m \in mahasiswa : m.nim = k.nim
          /\ \E c \in mata_kuliah : c.kode_mk = k.kode_mk
          /\ k.nilai = NULL \/ \E b \in bobot_nilai : b.nilai = k.nilai
    /\ (IsReply("create_krs")
          /\ \/ ~ \E m \in mahasiswa : m.nim = response.arg.nim
             \/ ~ \E c \in mata_kuliah : c.kode_mk = response.arg.kode_mk
             \/ ~ \E b \in bobot_nilai : b.nilai = response.arg.nilai)
       => /\ response.status = 500
          /\ ~ \E k \in krs : k.id_krs = krs_seq

\* C6 witness: an enrollment naming an unknown grade was refused after
\* another one had been stored.
C6_Witness ==
    /\ IsReply("create_krs")
    /\ response.status = 500
    /\ ~ \E b \in bobot_nilai : b.nilai = response.arg.nilai
    /\ krs # {}

\* C7: get_student answers 404 with no data payload when no stored student
\* has the id, and otherwise exactly the fields of the stored student.
C7_GetStudent ==
    IsReply("get_mahasiswa") =>
        IF \E m \in mahasiswa : m.nim = response.arg
        THEN /\ response.status = 200
             /\ response.data \in mahasiswa
             /\ response.data.nim = response.arg
        ELSE /\ response.status = 404
             /\ "data" \notin DOMAIN response

\* C7 witness: a 404 for an id that no stored student has.
C7_Witness ==
    /\ IsReply("get_mahasiswa")
    /\ response.status = 404
    /\ mahasiswa # {}

\* total_bobot as the loop accumulates it over detail rows 1..n, in order
RECURSIVE DetailTotal(_, _)
DetailTotal(details, n) ==
    IF n = 0 THEN FZero
    ELSE FAdd(DetailTotal(details, n - 1), FMulInt(details[n].bobot, details[n].sks))

\* C9: calculate_ips never answers 500 for a division by zero: with matching
\* rows whose credit_units do not sum to more than 0 it succeeds with ips = 0,
\* and otherwise ips is total_weighted / total_credits (rounded to 2 decimals).
C9_NoDivisionError ==
    IsReply("calculate_ips") =>
        LET rows == IpsJoin(response.arg.nim, response.arg.semester)
        IN  /\ response.status # 500
            /\ rows # {} =>
                 /\ response.status = 200
                 /\ response.data.total_sks = SumSks(rows)
                 /\ response.data.ips =
                      IF SumSks(rows) > 0
                      THEN FRound2(FDivInt(
                              DetailTotal(response.data.details,
                                          Len(response.data.details)),
                              SumSks(rows)))
                      ELSE 0

\* C9 witness: calculate_ips succeeded with ips = 0 over rows of a
\* zero-credit course.
C9_Witness ==
    /\ IsOk("calculate_ips")
    /\ Len(response.data.details) >= 1
    /\ response.data.total_sks = 0
    /\ response.data.ips = 0

\* C10: a session that get_db opened is eventually closed, whether the
\* handler returned or raised; with no request in flight no session is open;
\* requests in flight hold distinct sessions, each created for that request.
C10_SessionReleased ==
    /\ \A s \in 1..MaxSessions : (s \in open_sessions) ~> (s \notin open_sessions)
    /\ []((\A r \in Req : pc[r] = "idle") => open_sessions = {})
    /\ [](\A r1, r2 \in Req :
            (r1 # r2 /\ session[r1] # 0) => session[r1] # session[r2])
    /\ [](open_sessions = {session[r] : r \in {q \in Req : pc[q] # "idle"}})
    /\ [][\A r \in Req :
            (pc[r] = "idle" /\ pc'[r] = "open") => session'[r] \notin open_sessions]_vars

\* C10 witness: a handler has raised and its session is closed again, no
\* request being in flight.
C10_Witness ==
    /\ response.status >= 400
    /\ sessions_made >= 2
    /\ open_sessions = {}
    /\ \A r \in Req : pc[r] = "idle"
====
